---- MODULE Spec2Model ----
(***************************************************************************)
(* Model of the adaptive live-presence cache and detector of ClipBot       *)
(* (src/main.py): the resilient query primitive safe_youtube_call, the     *)
(* stream verifier check_video_still_live, the stream searcher             *)
(* search_for_live_streams, the detector get_live_info, the background     *)
(* refresher background_stream_check and the force-refresh route.          *)
(***************************************************************************)
EXTENDS Integers, Sequences, FiniteSets, TLC

VARIABLES
    cache,    \* the module-level dict `cache` (src/main.py:13-20)
    now,      \* the wall clock read by time.time()
    config,   \* presence of YOUTUBE_API_KEY and YOUTUBE_CHANNEL_ID
    pending,  \* background_stream_check threads started and not yet finished
    last,     \* observation of the most recent operation (return value, path, requests)
    forced,   \* a force-refresh happened since the last confirmed-live result
    qRun,     \* length of the current run of full checks whose search was answered 403
    runVid,   \* video_id cached when that run began
    call,     \* the most recent direct call of a leaf function (SpecCalls only)
    lastCheck, \* outcome of the most recent check that wrote cache["last_checked"]
    threads,  \* position and locals of each running thread (SpecThreads, SpecClips)
    store     \* the contents of clips.json (SpecClips only)

vars == <<cache, now, config, pending, last, forced, qRun, runVid, call, lastCheck,
          threads, store>>

------------------------------------------------------------------------------
(* Program constants, src/main.py:29-32 and the default of `retries`.      *)

CACHE_DURATION == 300
NEGATIVE_CACHE_DURATION == 30
LAST_KNOWN_LIVE_TIMEOUT == 180
MAX_CONSECUTIVE_FAILURES == 3
DEFAULT_RETRIES == 2

(* Bounds of the model.                                                     *)

MaxFailures == 3     \* cap of consecutive_failures
MaxPending == 1      \* cap of simultaneously running background threads
MaxRetries == 3
MaxRequests == 1
MaxSavers == 2
MaxSaves == 2      \* largest retry budget given to safe_youtube_call directly

\* time.time() at start-up is an epoch time, far beyond every window
StartClock == 3 * CACHE_DURATION
\* the clock readings explored: start-up, and every window's length after
\* start-up and after the first reading that follows it
ClockReadings ==
    {StartClock + d + e : d \in {0, NEGATIVE_CACHE_DURATION, LAST_KNOWN_LIVE_TIMEOUT,
                                 CACHE_DURATION},
                          e \in {0, NEGATIVE_CACHE_DURATION}}

None == "None"
VideoIds == {"v1", "v2"}

------------------------------------------------------------------------------
(* What the external source can answer.                                    *)

\* a parsed JSON body; NoData is Python's None, EmptyBody the dict {}
NoData == [is_none |-> TRUE, keys |-> {}, items |-> <<>>]
EmptyBody == [is_none |-> FALSE, keys |-> {}, items |-> <<>>]

\* one request attempt: requests.get raises, or returns a status and a body
Exception == [kind |-> "exception", status_code |-> 0, body |-> EmptyBody]
Response(code, body) == [kind |-> "response", status_code |-> code, body |-> body]
Json(items) == [is_none |-> FALSE, keys |-> {"kind", "items"}, items |-> items]

ErrorReplies == {Exception, Response(403, EmptyBody), Response(429, EmptyBody),
                 Response(500, EmptyBody)}

\* ISO-8601 strings the source puts into liveStreamingDetails
StartStrings == {"2024-01-01T00:00:00Z", "2024-01-01T00:10:00Z", "not-a-timestamp"}
EndStrings == {"2024-01-01T02:00:00Z"}
BroadcastFlags == {"live", "upcoming", "none"}

\* one item of a videos.list answer; None stands for a key that is missing
VideoItems == [liveBroadcastContent : BroadcastFlags \cup {None},
               actualStartTime : StartStrings \cup {None},
               actualEndTime : EndStrings \cup {None}]

DetailReplies == ErrorReplies \cup {Response(200, EmptyBody), Response(200, Json(<<>>))}
                 \cup {Response(200, Json(<<v>>)) : v \in VideoItems}

\* the candidate lists of a search.list answer: distinct ids in source order
CandidateLists == ({<<>>} \cup {<<v>> : v \in VideoIds}
                   \cup {<<v, w>> : v, w \in VideoIds}) \ {<<v, v>> : v \in VideoIds}

SearchReplies == ErrorReplies \cup {Response(200, EmptyBody)}
                 \cup {Response(200, Json(c)) : c \in CandidateLists}

------------------------------------------------------------------------------
(* safe_youtube_call(url, retries, delay): replies[i] is the outcome of    *)
(* the i-th requests.get, should the loop get that far.                    *)

RaiseForStatus(code) == code >= 400

\* variant: a 429 answer is retried like a transport failure
RECURSIVE AttemptRetryingRateLimit(_, _, _, _)
AttemptRetryingRateLimit(attempt, retries, replies, sleeps) ==
    IF attempt >= retries
    THEN [data |-> NoData, status |-> "network_error", attempts |-> attempt,
          sleeps |-> sleeps]
    ELSE LET resp == replies[attempt + 1]
             retry == AttemptRetryingRateLimit(attempt + 1, retries, replies,
                              IF attempt < retries - 1 THEN sleeps + 1 ELSE sleeps)
         IN
         IF resp.kind = "exception" THEN retry
         ELSE IF resp.status_code = 403
         THEN [data |-> NoData, status |-> "quota_exceeded", attempts |-> attempt + 1,
               sleeps |-> sleeps]
         ELSE IF RaiseForStatus(resp.status_code) THEN retry
         ELSE [data |-> resp.body, status |-> "success", attempts |-> attempt + 1,
               sleeps |-> sleeps]

RECURSIVE Attempt(_, _, _, _)
Attempt(attempt, retries, replies, sleeps) ==
    IF attempt >= retries
    THEN [data |-> NoData, status |-> "network_error", attempts |-> attempt,
          sleeps |-> sleeps]
    ELSE LET resp == replies[attempt + 1]
             retry == Attempt(attempt + 1, retries, replies,
                              IF attempt < retries - 1 THEN sleeps + 1 ELSE sleeps)
         IN
         IF resp.kind = "exception" THEN retry
         ELSE IF resp.status_code = 403
         THEN [data |-> NoData, status |-> "quota_exceeded", attempts |-> attempt + 1,
               sleeps |-> sleeps]
         ELSE IF resp.status_code = 429
         THEN [data |-> NoData, status |-> "rate_limited", attempts |-> attempt + 1,
               sleeps |-> sleeps]
         ELSE IF RaiseForStatus(resp.status_code) THEN retry
         ELSE [data |-> resp.body, status |-> "success", attempts |-> attempt + 1,
               sleeps |-> sleeps]

SafeYoutubeCall(retries, replies) == Attempt(0, retries, replies, 0)

\* Python truthiness of the returned `data`: None and {} are falsy
Falsy(data) == data.is_none \/ data.keys = {}
\* data.get("items")
GetItems(data) == IF "items" \in data.keys THEN data.items ELSE <<>>

------------------------------------------------------------------------------
(* check_video_still_live(video_id)                                        *)

\* start_time_str.replace("Z", "+00:00")
ReplaceZ(s) ==
    CASE s = "2024-01-01T00:00:00Z" -> "2024-01-01T00:00:00+00:00"
      [] s = "2024-01-01T00:10:00Z" -> "2024-01-01T00:10:00+00:00"
      [] s = "2024-01-01T02:00:00Z" -> "2024-01-01T02:00:00+00:00"
      [] OTHER -> s

\* datetime.datetime.fromisoformat: the datetime, or "ValueError"
FromIsoFormat(s) ==
    CASE s = "2024-01-01T00:00:00+00:00" -> "datetime(2024,1,1,0,0,0,utc)"
      [] s = "2024-01-01T00:10:00+00:00" -> "datetime(2024,1,1,0,10,0,utc)"
      [] s = "2024-01-01T02:00:00+00:00" -> "datetime(2024,1,1,2,0,0,utc)"
      [] OTHER -> "ValueError"

ParseStart(s) ==
    LET d == FromIsoFormat(ReplaceZ(s)) IN IF d = "ValueError" THEN None ELSE d

\* variant: the actualEndTime test is missing
IsLiveIgnoringEnd(video) ==
    LET broadcast_content == IF video.liveBroadcastContent = None THEN ""
                             ELSE video.liveBroadcastContent
    IN IF broadcast_content = "upcoming" /\ video.actualStartTime # None
       THEN TRUE ELSE broadcast_content \in {"live", "upcoming"}

IsLive(video) ==
    LET broadcast_content == IF video.liveBroadcastContent = None THEN ""
                             ELSE video.liveBroadcastContent
        flagged == broadcast_content \in {"live", "upcoming"}
        started == IF broadcast_content = "upcoming" /\ video.actualStartTime # None
                   THEN TRUE ELSE flagged
    IN IF video.actualEndTime # None THEN FALSE ELSE started

CheckVideoStillLive(video_id, reply) ==
    LET q == SafeYoutubeCall(1, <<reply>>) IN
    IF Falsy(q.data) \/ GetItems(q.data) = <<>>
    THEN [is_live |-> FALSE, start_time |-> None, calls |-> q.attempts]
    ELSE LET video == GetItems(q.data)[1]
             is_live == IsLive(video)
         IN [is_live |-> is_live,
             start_time |-> IF is_live /\ video.actualStartTime # None
                            THEN ParseStart(video.actualStartTime) ELSE None,
             calls |-> q.attempts]

------------------------------------------------------------------------------
(* search_for_live_streams(): replies are the outcomes of the search       *)
(* request's attempts, details[v] the answer to the details request for v. *)

\* variant: the loop does not return at the first live candidate but keeps
\* the last one
RECURSIVE ScanPastFirst(_, _, _, _, _)
ScanPastFirst(items, i, details, verified, calls) ==
    IF i > Len(items)
    THEN [video_id |-> None, start_time |-> None, error |-> "no_live_streams",
          calls |-> calls, verified |-> verified]
    ELSE LET video_id == items[i]
             v == CheckVideoStillLive(video_id, details[video_id])
             rest == ScanPastFirst(items, i + 1, details, Append(verified, video_id),
                                   calls + v.calls)
         IN IF v.is_live /\ rest.video_id = None
            THEN [rest EXCEPT !.video_id = video_id, !.start_time = v.start_time,
                              !.error = "success"]
            ELSE rest

RECURSIVE Scan(_, _, _, _, _)
Scan(items, i, details, verified, calls) ==
    IF i > Len(items)
    THEN [video_id |-> None, start_time |-> None, error |-> "no_live_streams",
          calls |-> calls, verified |-> verified]
    ELSE LET video_id == items[i]
             v == CheckVideoStillLive(video_id, details[video_id])
         IN IF v.is_live
            THEN [video_id |-> video_id, start_time |-> v.start_time,
                  error |-> "success", calls |-> calls + v.calls,
                  verified |-> Append(verified, video_id)]
            ELSE Scan(items, i + 1, details, Append(verified, video_id),
                      calls + v.calls)

SearchForLiveStreams(replies, details) ==
    LET q == SafeYoutubeCall(DEFAULT_RETRIES, replies) IN
    IF Falsy(q.data)
    THEN [video_id |-> None, start_time |-> None, error |-> q.status,
          calls |-> q.attempts, verified |-> <<>>]
    ELSE IF GetItems(q.data) = <<>>
    THEN [video_id |-> None, start_time |-> None, error |-> "no_streams_found",
          calls |-> q.attempts, verified |-> <<>>]
    ELSE Scan(GetItems(q.data), 1, details, <<>>, q.attempts)

------------------------------------------------------------------------------
(* What one verification and one search can come to, over every answer of  *)
(* the source.                                                             *)

VerifyResults ==
    {CheckVideoStillLive(v, r) : v \in VideoIds, r \in DetailReplies}

\* the searcher reads a details answer only through the verifier, so one
\* answer for each result of the verifier stands for all of them
DetailSamples ==
    {CHOOSE r \in DetailReplies : \A v \in VideoIds : CheckVideoStillLive(v, r) = x :
        x \in VerifyResults}

SearchRuns ==
    {SearchForLiveStreams(rs, ds) :
        rs \in [1..DEFAULT_RETRIES -> SearchReplies], ds \in [VideoIds -> DetailSamples]}

SearchResults ==
    {[video_id |-> x.video_id, start_time |-> x.start_time, error |-> x.error,
      calls |-> x.calls] : x \in SearchRuns}

------------------------------------------------------------------------------
(* get_live_info()                                                         *)

\* a call that is not made has no answer
NotVerified == [is_live |-> FALSE, start_time |-> None, calls |-> 0]
NotSearched == [video_id |-> None, start_time |-> None, error |-> "none", calls |-> 0]

InitialCache ==
    [video_id |-> None, start_time |-> None, last_checked |-> 0,
     last_known_live_time |-> 0, consecutive_failures |-> 0,
     stream_status |-> "unknown"]

\* variant: the test that a video_id is cached is missing
Strategy1AppliesWithoutId(c, t) == t - c.last_checked < CACHE_DURATION

\* Strategy 1: cached positive result still valid
Strategy1Applies(c, t) ==
    c.video_id # None /\ t - c.last_checked < CACHE_DURATION

\* Strategy 2: grace period for a recently live stream
Strategy2Applies(c, t) ==
    /\ c.video_id # None
    /\ c.last_known_live_time > 0
    /\ t - c.last_known_live_time < LAST_KNOWN_LIVE_TIMEOUT

\* variant: the test of consecutive_failures is missing
Strategy3AppliesIgnoringFailures(c, t) ==
    c.video_id = None /\ t - c.last_checked < NEGATIVE_CACHE_DURATION

\* Strategy 3: negative cache, with a background check
Strategy3Applies(c, t) ==
    /\ c.video_id = None
    /\ t - c.last_checked < NEGATIVE_CACHE_DURATION
    /\ c.consecutive_failures < MAX_CONSECUTIVE_FAILURES

\* variant: `and` in place of `or`
ConfigMissingBoth(cfg) == ~cfg.api_key /\ ~cfg.channel_id

ConfigMissing(cfg) == ~cfg.api_key \/ ~cfg.channel_id

\* variant: a 403 is not counted among the transient errors
TransientErrorsWithoutQuota == {"rate_limited", "network_error"}

TransientErrors == {"quota_exceeded", "rate_limited", "network_error"}

\* variant: the failure counter is not reset
GraceSuccessKeepingFailures(c, t) ==
    [c EXCEPT !.last_checked = t, !.last_known_live_time = t]

\* the cache updates of a verification that found the cached stream live
GraceSuccess(c, t) ==
    [c EXCEPT !.last_checked = t, !.last_known_live_time = t,
              !.consecutive_failures = 0]

ReverifySuccess(c, t) ==
    [c EXCEPT !.last_checked = t, !.last_known_live_time = t,
              !.consecutive_failures = 0, !.stream_status = "live"]

\* variant: the success branch does not refresh last_known_live_time
SearchUpdateWithoutLiveTime(c, t, s) ==
    LET c1 == [c EXCEPT !.last_checked = t] IN
    IF s.video_id # None /\ s.start_time # None
    THEN [c1 EXCEPT !.video_id = s.video_id, !.start_time = s.start_time,
                    !.consecutive_failures = 0, !.stream_status = "live"]
    ELSE LET c2 == [c1 EXCEPT !.consecutive_failures = @ + 1] IN
         IF s.error \notin {"quota_exceeded", "rate_limited", "network_error"}
         THEN [c2 EXCEPT !.video_id = None, !.start_time = None,
                         !.stream_status = "offline"]
         ELSE [c2 EXCEPT !.stream_status = "api_error"]

\* "Update cache based on results", lines 194-219
SearchUpdate(c, t, s) ==
    LET c1 == [c EXCEPT !.last_checked = t] IN
    IF s.video_id # None /\ s.start_time # None
    THEN [c1 EXCEPT !.video_id = s.video_id, !.start_time = s.start_time,
                    !.last_known_live_time = t, !.consecutive_failures = 0,
                    !.stream_status = "live"]
    ELSE LET c2 == [c1 EXCEPT !.consecutive_failures = @ + 1] IN
         IF s.error \notin TransientErrors
         THEN [c2 EXCEPT !.video_id = None, !.start_time = None,
                         !.stream_status = "offline"]
         ELSE [c2 EXCEPT !.stream_status = "api_error"]

Outcome(c, ret, calls, path, s, spawned) ==
    [cache |-> c, ret |-> ret, calls |-> calls, path |-> path, error |-> s.error,
     searched |-> <<s.video_id, s.start_time>>, spawned |-> spawned]

\* Strategy 4 from the search on; calls counts the requests issued before it
FullSearch(c, t, s, calls) ==
    LET c1 == SearchUpdate(c, t, s)
        found == s.video_id # None /\ s.start_time # None
    IN Outcome(c1, IF found THEN <<s.video_id, s.start_time>> ELSE <<None, None>>,
               calls + s.calls, IF found THEN "found" ELSE "not_found", s, FALSE)

\* variant: the cached video_id is not re-verified before the search
FullCheckWithoutReverify(c, t, cfg, r, s, calls) ==
    IF ConfigMissing(cfg)
    THEN Outcome([c EXCEPT !.stream_status = "config_error"], <<None, None>>, calls,
                 "config_error", NotSearched, FALSE)
    ELSE FullSearch(c, t, s, IF c.video_id # None THEN calls + r.calls ELSE calls)

\* Strategy 4: full API check
FullCheck(c, t, cfg, r, s, calls) ==
    IF ConfigMissing(cfg)
    THEN Outcome([c EXCEPT !.stream_status = "config_error"], <<None, None>>, calls,
                 "config_error", NotSearched, FALSE)
    ELSE IF c.video_id # None /\ r.is_live
    THEN Outcome(ReverifySuccess(c, t), <<c.video_id, r.start_time>>, calls + r.calls,
                 "reverify_live", NotSearched, FALSE)
    ELSE FullSearch(c, t, s, IF c.video_id # None THEN calls + r.calls ELSE calls)

\* g and r are the verifier's answers in strategy 2 and in strategy 4, s the
\* searcher's answer; each is used only if the lookup gets to that call
GetLiveInfo(c, t, cfg, g, r, s) ==
    IF Strategy1Applies(c, t)
    THEN Outcome(c, <<c.video_id, c.start_time>>, 0, "cache_hit", NotSearched, FALSE)
    ELSE IF Strategy2Applies(c, t) /\ g.is_live
    THEN Outcome(GraceSuccess(c, t), <<c.video_id, g.start_time>>, g.calls,
                 "grace_live", NotSearched, FALSE)
    ELSE LET calls == IF Strategy2Applies(c, t) THEN g.calls ELSE 0 IN
         IF Strategy3Applies(c, t)
         THEN Outcome(c, <<None, None>>, calls, "negative_hit", NotSearched, TRUE)
         ELSE FullCheck(c, t, cfg, r, s, calls)

------------------------------------------------------------------------------
(* The program as a state machine.                                         *)

\* grace and reverify are the verifier's answers in strategy 2 and in strategy
\* 4 ("none": not asked)
Observation(op, path, err, searched, ret, calls, spawned) ==
    [op |-> op, path |-> path, error |-> err, searched |-> searched, ret |-> ret,
     calls |-> calls, spawned |-> spawned, grace |-> "none", reverify |-> "none"]

Answer(v) == IF v.calls = 0 THEN "none" ELSE IF v.is_live THEN "live" ELSE "not_live"

Quiet(op) == Observation(op, "none", "none", <<None, None>>, <<None, None>>, 0, FALSE)

NoCall == [fn |-> "none"]
NoThreads == <<>>

\* clips.json: missing, or holding bytes that are a JSON list (valid) or not
File(clips) == [exists |-> TRUE, valid |-> TRUE, clips |-> clips]
EmptyFile == [exists |-> TRUE, valid |-> FALSE, clips |-> <<>>]
NoStore == [exists |-> FALSE, valid |-> FALSE, clips |-> <<>>]

\* no check has written last_checked yet
NoCheck == [outcome |-> "none", video_id |-> None, background |-> None]

\* How the most recent check that wrote last_checked ended, and the video_id
\* it left cached; background is the video_id a background refresh has written
\* since (that thread does not write last_checked).
CheckRecord(o) ==
    IF o.path \in {"grace_live", "reverify_live", "found"}
    THEN [outcome |-> "confirmed", video_id |-> o.ret[1], background |-> None]
    ELSE IF o.path = "not_found"
    THEN [outcome |-> IF o.error \in TransientErrors THEN "transient" ELSE "definitive",
          video_id |-> o.cache.video_id, background |-> None]
    ELSE lastCheck

ConfirmedPaths == {"grace_live", "reverify_live", "found", "bg_found"}
FullCheckPaths == {"config_error", "reverify_live", "found", "not_found"}

\* bookkeeping of the run of full checks whose search was answered 403
NextRun(c, o) ==
    IF o.path = "not_found" /\ o.error = "quota_exceeded"
    THEN (IF qRun = 1 THEN 2 ELSE IF c.consecutive_failures = 0 THEN 1 ELSE 0)
    ELSE IF o.path \in FullCheckPaths \cup ConfirmedPaths THEN 0
    ELSE qRun

Init ==
    /\ cache = InitialCache
    /\ now = StartClock
    /\ config \in [api_key : BOOLEAN, channel_id : BOOLEAN]
    /\ pending = 0
    /\ last = Quiet("init")
    /\ forced = FALSE
    /\ qRun = 0
    /\ runVid = None
    /\ call = NoCall
    /\ lastCheck = NoCheck
    /\ threads = NoThreads
    /\ store = NoStore

\* the effects of one run of get_live_info on the program state
Complete(op, c, o, g, r) ==
    /\ o.cache.consecutive_failures <= MaxFailures
    /\ o.spawned => pending < MaxPending
    /\ cache' = o.cache
    /\ pending' = IF o.spawned THEN pending + 1 ELSE pending
    /\ last' = [Observation(op, o.path, o.error, o.searched, o.ret, o.calls, o.spawned)
                   EXCEPT !.grace = Answer(g), !.reverify = Answer(r)]
    /\ forced' = IF o.path \in ConfirmedPaths THEN FALSE
                 ELSE IF op = "force_refresh" THEN TRUE ELSE forced
    /\ lastCheck' = CheckRecord(o)
    /\ qRun' = NextRun(c, o)
    /\ runVid' = IF NextRun(c, o) = 0 THEN None
                 ELSE IF NextRun(c, o) = 1 THEN c.video_id ELSE runVid
    /\ UNCHANGED <<now, config, call, threads, store>>

\* The requests one run of get_live_info issues, in order: the strategy-2
\* verification, the strategy-4 verification, the search.
GraceAnswers(c, t) ==
    IF ~Strategy1Applies(c, t) /\ Strategy2Applies(c, t)
    THEN VerifyResults ELSE {NotVerified}

ReachesFullCheck(c, t, cfg, g) ==
    /\ ~Strategy1Applies(c, t)
    /\ ~(Strategy2Applies(c, t) /\ g.is_live)
    /\ ~Strategy3Applies(c, t)
    /\ ~ConfigMissing(cfg)

ReverifyAnswers(c, t, cfg, g) ==
    IF ReachesFullCheck(c, t, cfg, g) /\ c.video_id # None
    THEN VerifyResults ELSE {NotVerified}

SearchAnswers(c, t, cfg, g, r) ==
    IF ReachesFullCheck(c, t, cfg, g) /\ ~(c.video_id # None /\ r.is_live)
    THEN SearchResults ELSE {NotSearched}

Run(op, c) ==
    \E g \in GraceAnswers(c, now) :
    \E r \in ReverifyAnswers(c, now, config, g) :
    \E s \in SearchAnswers(c, now, config, g, r) :
        Complete(op, cache, GetLiveInfo(c, now, config, g, r, s), g, r)

\* a request handler calls get_live_info() (the /clip route)
Lookup == Run("lookup", cache)

\* the /force-refresh route
\* variant: last_checked is not reset
StaleCacheUnchanged(c) == c

StaleCache(c) == [c EXCEPT !.last_checked = 0]

ForceRefresh == Run("force_refresh", StaleCache(cache))

\* background_stream_check(), run to its end by its thread
BackgroundUpdate(c, t, s) ==
    IF s.video_id # None
    THEN [c EXCEPT !.video_id = s.video_id, !.start_time = s.start_time,
                   !.last_known_live_time = t, !.consecutive_failures = 0,
                   !.stream_status = "live"]
    ELSE c

BackgroundStreamCheck ==
    /\ pending > 0
    /\ \E s \in SearchResults :
        LET found == s.video_id # None IN
        /\ cache' = BackgroundUpdate(cache, now, s)
        /\ last' = Observation("background", IF found THEN "bg_found" ELSE "bg_nothing",
                               s.error, <<s.video_id, s.start_time>>, <<None, None>>,
                               s.calls, FALSE)
        /\ forced' = IF found THEN FALSE ELSE forced
        /\ lastCheck' = IF found THEN [lastCheck EXCEPT !.background = s.video_id]
                         ELSE lastCheck
        /\ qRun' = IF found THEN 0 ELSE qRun
        /\ runVid' = IF found THEN None ELSE runVid
    /\ pending' = pending - 1
    /\ UNCHANGED <<now, config, call, threads, store>>

\* time passes
Tick ==
    /\ \E t \in ClockReadings : t > now /\ now' = t
    /\ last' = Quiet("tick")
    /\ UNCHANGED <<cache, config, pending, forced, qRun, runVid, call, lastCheck,
                   threads, store>>

Next == Lookup \/ ForceRefresh \/ BackgroundStreamCheck \/ Tick

Spec == Init /\ [][Next]_vars

------------------------------------------------------------------------------
(* The leaf functions called directly, on every answer of the source.      *)

\* the cache a lookup finds CACHE_DURATION after the one that found video_id
\* v live with start time st
LiveCache(v, st, t) ==
    [video_id |-> v, start_time |-> st, last_checked |-> t - CACHE_DURATION,
     last_known_live_time |-> t - CACHE_DURATION, consecutive_failures |-> 0,
     stream_status |-> "live"]

\* details answers for a whole lookup: every failure, an empty list, and one
\* answer for each result of the verifier
DetailProbes == ErrorReplies \cup {Response(200, Json(<<>>))} \cup DetailSamples

\* The requests of one full check that were answered 403 or 429: the
\* verification of the cached video_id, the search, or the verification of a
\* candidate. check_video_still_live assigns the error class (line 77) and
\* returns without it.
Throttles == {"quota_exceeded", "rate_limited"}

VerifyThrottled(reply) == SafeYoutubeCall(1, <<reply>>).status \in Throttles

FullCheckThrottled(c, reply, x, details) ==
    \/ c.video_id # None /\ VerifyThrottled(reply)
    \/ x.error \in Throttles
    \/ \E i \in 1..Len(x.verified) : VerifyThrottled(details[x.verified[i]])

InitCalls ==
    /\ \/ \E n \in 0..MaxRetries : \E replies \in [1..n -> SearchReplies] :
            call = [fn |-> "safe_youtube_call", retries |-> n, replies |-> replies]
       \/ \E c \in {InitialCache, LiveCache("v1", "datetime(2024,1,1,0,0,0,utc)", StartClock)},
             reply \in DetailProbes, rs \in [1..DEFAULT_RETRIES -> SearchReplies],
             ds \in [VideoIds -> DetailProbes] :
            /\ c.video_id = None => reply = Exception
            /\ call = [fn |-> "get_live_info", cache |-> c, reverify |-> reply,
                       replies |-> rs, details |-> ds]
       \/ \E v \in VideoIds, reply \in DetailReplies :
            call = [fn |-> "check_video_still_live", video_id |-> v, reply |-> reply]
       \/ \E rs \in [1..DEFAULT_RETRIES -> SearchReplies], ds \in [VideoIds -> DetailReplies] :
            call = [fn |-> "search_for_live_streams", replies |-> rs, details |-> ds]
    /\ cache = InitialCache
    /\ now = StartClock
    /\ config = [api_key |-> TRUE, channel_id |-> TRUE]
    /\ pending = 0
    /\ last = Quiet("init")
    /\ forced = FALSE
    /\ qRun = 0
    /\ runVid = None
    /\ lastCheck = NoCheck
    /\ threads = NoThreads
    /\ store = NoStore

Called == "out" \in DOMAIN call

CallSafeYoutubeCall ==
    /\ call.fn = "safe_youtube_call" /\ ~Called
    /\ call' = [fn |-> call.fn, retries |-> call.retries, replies |-> call.replies,
                out |-> SafeYoutubeCall(call.retries, call.replies)]
    /\ UNCHANGED <<cache, now, config, pending, last, forced, qRun, runVid, lastCheck,
                   threads, store>>

CallCheckVideoStillLive ==
    /\ call.fn = "check_video_still_live" /\ ~Called
    /\ call' = [fn |-> call.fn, video_id |-> call.video_id, reply |-> call.reply,
                out |-> CheckVideoStillLive(call.video_id, call.reply)]
    /\ UNCHANGED <<cache, now, config, pending, last, forced, qRun, runVid, lastCheck,
                   threads, store>>

CallSearchForLiveStreams ==
    /\ call.fn = "search_for_live_streams" /\ ~Called
    /\ call' = [fn |-> call.fn, replies |-> call.replies, details |-> call.details,
                out |-> SearchForLiveStreams(call.replies, call.details)]
    /\ UNCHANGED <<cache, now, config, pending, last, forced, qRun, runVid, lastCheck,
                   threads, store>>

\* one lookup that gets to strategy 4, on the raw answers of its requests
CallGetLiveInfo ==
    /\ call.fn = "get_live_info" /\ ~Called
    /\ LET r == CheckVideoStillLive(call.cache.video_id, call.reverify)
           x == SearchForLiveStreams(call.replies, call.details)
           o == GetLiveInfo(call.cache, now, config, NotVerified, r, x)
       IN call' = [fn |-> call.fn, cache |-> call.cache, reverify |-> call.reverify,
                   replies |-> call.replies, details |-> call.details,
                   out |-> [cache |-> o.cache, ret |-> o.ret, path |-> o.path,
                            error |-> o.error, searched |-> o.searched,
                            throttled |-> FullCheckThrottled(call.cache, call.reverify,
                                                             x, call.details)]]
    /\ UNCHANGED <<cache, now, config, pending, last, forced, qRun, runVid, lastCheck,
                   threads, store>>

NextCalls ==
    \/ CallSafeYoutubeCall
    \/ CallCheckVideoStillLive
    \/ CallSearchForLiveStreams
    \/ CallGetLiveInfo

SpecCalls == InitCalls /\ [][NextCalls]_vars

------------------------------------------------------------------------------
(* The detector run by concurrent threads. Flask serves each request in a  *)
(* thread of its own and background_stream_check runs in another; `cache`  *)
(* is a plain dict without a lock, so the threads interleave between any   *)
(* two stores. A thread decides on the cache as it reads it when it starts *)
(* and on the answers of its requests, then performs its stores one by     *)
(* one.                                                                     *)

BackgroundThread == 0
RequestThreads == 1..MaxRequests
ThreadIds == {BackgroundThread} \cup RequestThreads

Idle == [pc |-> "idle", writes |-> <<>>]
Writing(ws) == IF ws = <<>> THEN Idle ELSE [pc |-> "writing", writes |-> ws]

\* one store cache[field] = value; `cache[field] += 1` and
\* `cache[field] = time.time()` take their value when they execute
Set(field, value) == [field |-> field, kind |-> "set", value |-> value]
SetNone(field) == [field |-> field, kind |-> "none", value |-> 0]
SetStatus(status) == [field |-> "stream_status", kind |-> status, value |-> 0]
Increment(field) == [field |-> field, kind |-> "incr", value |-> 0]
SetClock(field) == [field |-> field, kind |-> "clock", value |-> 0]
SetText(field, text) == [field |-> field, kind |-> "text", value |-> 0, text |-> text]

Store(c, w, t) ==
    [c EXCEPT ![w.field] = IF w.kind = "set" THEN w.value
                           ELSE IF w.kind = "none" THEN None
                           ELSE IF w.kind = "incr" THEN @ + 1
                           ELSE IF w.kind = "clock" THEN t
                           ELSE IF w.kind = "text" THEN w.text
                           ELSE w.kind]

\* lines 195-216, in program order
SearchWrites(t, s) ==
    <<Set("last_checked", t)>> \o
    (IF s.video_id # None /\ s.start_time # None
     THEN <<SetText("video_id", s.video_id), SetText("start_time", s.start_time),
            Set("last_known_live_time", t), Set("consecutive_failures", 0),
            SetStatus("live")>>
     ELSE <<Increment("consecutive_failures")>> \o
          (IF s.error \notin TransientErrors
           THEN <<SetNone("video_id"), SetNone("start_time"), SetStatus("offline")>>
           ELSE <<SetStatus("api_error")>>))

\* the stores of one run of get_live_info, in program order
LookupWrites(c, t, cfg, g, r, s) ==
    IF Strategy1Applies(c, t) THEN <<>>
    ELSE IF Strategy2Applies(c, t) /\ g.is_live
    THEN <<Set("last_checked", t), Set("last_known_live_time", t),
           Set("consecutive_failures", 0)>>
    ELSE IF Strategy3Applies(c, t) THEN <<>>
    ELSE IF ConfigMissing(cfg) THEN <<SetStatus("config_error")>>
    ELSE IF c.video_id # None /\ r.is_live
    THEN <<Set("last_checked", t), Set("last_known_live_time", t),
           Set("consecutive_failures", 0), SetStatus("live")>>
    ELSE SearchWrites(t, s)

\* lines 227-231
BackgroundWrites(s) ==
    IF s.video_id # None
    THEN <<SetText("video_id", s.video_id),
           IF s.start_time = None THEN SetNone("start_time")
           ELSE SetText("start_time", s.start_time),
           SetClock("last_known_live_time"), Set("consecutive_failures", 0),
           SetStatus("live")>>
    ELSE <<>>

InitThreads ==
    /\ cache = InitialCache
    /\ now = StartClock
    /\ config \in [api_key : BOOLEAN, channel_id : BOOLEAN]
    /\ threads = [th \in ThreadIds |-> Idle]
    /\ pending = 0
    /\ last = Quiet("init")
    /\ forced = FALSE
    /\ qRun = 0
    /\ runVid = None
    /\ call = NoCall
    /\ lastCheck = NoCheck
    /\ store = NoStore

\* a request thread enters get_live_info, reads the cache, issues its
\* requests and is left with its stores to do
RequestStart(th, c) ==
    /\ threads[th].pc = "idle"
    /\ \E g \in GraceAnswers(c, now) :
       \E r \in ReverifyAnswers(c, now, config, g) :
       \E s \in SearchAnswers(c, now, config, g, r) :
         LET ws == LookupWrites(c, now, config, g, r, s)
             spawned == GetLiveInfo(c, now, config, g, r, s).spawned
         IN /\ spawned => threads[BackgroundThread].pc = "idle"
            /\ (\E i \in 1..Len(ws) : ws[i].kind = "incr")
               => c.consecutive_failures < MaxFailures
            /\ threads' = [threads EXCEPT
                             ![th] = Writing(ws),
                             ![BackgroundThread] =
                                 IF spawned THEN [pc |-> "searching", writes |-> <<>>]
                                 ELSE @]
    /\ cache' = c
    /\ UNCHANGED <<now, config, pending, last, forced, qRun, runVid, call, lastCheck,
                   store>>

RequestLookup == \E th \in RequestThreads : RequestStart(th, cache)

RequestForceRefresh == \E th \in RequestThreads : RequestStart(th, StaleCache(cache))

\* background_stream_check gets the answer of its search
BackgroundSearch ==
    /\ threads[BackgroundThread].pc = "searching"
    /\ \E s \in SearchResults :
         threads' = [threads EXCEPT ![BackgroundThread] = Writing(BackgroundWrites(s))]
    /\ UNCHANGED <<cache, now, config, pending, last, forced, qRun, runVid, call,
                   lastCheck, store>>

\* a thread executes its next store
ThreadWrite ==
    /\ \E th \in ThreadIds :
         /\ threads[th].pc = "writing"
         /\ cache' = Store(cache, Head(threads[th].writes), now)
         /\ threads' = [threads EXCEPT ![th] = Writing(Tail(threads[th].writes))]
    /\ UNCHANGED <<now, config, pending, last, forced, qRun, runVid, call, lastCheck,
                   store>>

\* time passes while threads run: every window of the cache expires
TickThreads ==
    /\ now = StartClock /\ now' = StartClock + CACHE_DURATION
    /\ UNCHANGED <<cache, config, pending, last, forced, qRun, runVid, call, lastCheck,
                   threads, store>>

NextThreads ==
    \/ RequestLookup
    \/ RequestForceRefresh
    \/ BackgroundSearch
    \/ ThreadWrite
    \/ TickThreads

SpecThreads == InitThreads /\ [][NextThreads]_vars

------------------------------------------------------------------------------
(* save_clip() run by concurrent /clip requests: the file is read, the     *)
(* list extended in memory, the file opened for writing (which truncates   *)
(* it) and the list dumped, with no lock around the four.                  *)

SaverThreads == 1..MaxSavers

\* the record of the k-th clip saved by thread th
NewClip(th, k) == [user |-> th, title |-> k]

\* lines 259-263: a missing file and an undecodable one both read as []
LoadClips(f) == IF f.exists /\ f.valid THEN f.clips ELSE <<>>

InitClips ==
    /\ store \in {NoStore, EmptyFile, File(<<>>), File(<<NewClip(0, 1)>>)}
    /\ threads = [th \in SaverThreads |-> [pc |-> "idle", clips |-> <<>>, saves |-> 0]]
    /\ last = [op |-> "init", written |-> LoadClips(store)]
    /\ cache = InitialCache
    /\ now = StartClock
    /\ config = [api_key |-> TRUE, channel_id |-> TRUE]
    /\ pending = 0
    /\ forced = FALSE
    /\ qRun = 0
    /\ runVid = None
    /\ call = NoCall
    /\ lastCheck = NoCheck

\* lines 259-264: json.load, or [] on an exception, then clips.append
SaveClipLoad ==
    /\ \E th \in SaverThreads :
         /\ threads[th].pc = "idle" /\ threads[th].saves < MaxSaves
         /\ threads' = [threads EXCEPT
                          ![th] = [pc |-> "loaded", saves |-> @.saves + 1,
                                   clips |-> Append(LoadClips(store),
                                                    NewClip(th, @.saves + 1))]]
    /\ UNCHANGED <<store, last>>
    /\ UNCHANGED <<cache, now, config, pending, forced, qRun, runVid, call, lastCheck>>

\* line 265: open("clips.json", "w") truncates the file
SaveClipOpen ==
    /\ \E th \in SaverThreads :
         /\ threads[th].pc = "loaded"
         /\ threads' = [threads EXCEPT ![th].pc = "opened"]
    /\ store' = EmptyFile
    /\ UNCHANGED <<cache, now, config, pending, last, forced, qRun, runVid, call,
                   lastCheck>>

\* line 266: json.dump and the close of the file; the call returns
SaveClipDump ==
    /\ \E th \in SaverThreads :
         /\ threads[th].pc = "opened"
         /\ store' = File(threads[th].clips)
         /\ last' = [op |-> "save_clip",
                     written |-> Append(last.written,
                                        threads[th].clips[Len(threads[th].clips)])]
         /\ threads' = [threads EXCEPT ![th].pc = "idle", ![th].clips = <<>>]
    /\ UNCHANGED <<cache, now, config, pending, forced, qRun, runVid, call, lastCheck>>

NextClips == SaveClipLoad \/ SaveClipOpen \/ SaveClipDump

SpecClips == InitClips /\ [][NextClips]_vars

------------------------------------------------------------------------------
(* Properties of the detector, checked under Spec.                         *)

IsLookup(o) == o.op \in {"lookup", "force_refresh"}
Cached(c) == <<c.video_id, c.start_time>>

\* C1: after a confirmed-live result (each one sets last_known_live_time),
\* every lookup made less than CACHE_DURATION later, with no force-refresh in
\* between, returns the cached (video_id, start_time) and issues no request.
C1_HitWithinPositiveWindow ==
    [][(/\ last'.op = "lookup"
        /\ cache.last_known_live_time > 0
        /\ now - cache.last_known_live_time < CACHE_DURATION
        /\ ~forced)
       => (last'.ret = Cached(cache) /\ last'.calls = 0)]_vars

DefinitiveNoStream(o) ==
    IsLookup(o) /\ o.path = "not_found" /\ o.error \in {"no_streams_found", "no_live_streams"}

\* C2: a full check that ends with a definitive "no live stream" does not
\* increment consecutive_failures, and clears video_id and start_time with
\* stream_status offline.
C2_DefinitiveNegativeDoesNotCount ==
    [][DefinitiveNoStream(last')
       => (/\ cache'.consecutive_failures = cache.consecutive_failures
           /\ cache'.video_id = None
           /\ cache'.start_time = None
           /\ cache'.stream_status = "offline")]_vars

TransientFailure(o) ==
    IsLookup(o) /\ o.path = "not_found"
    /\ o.error \in {"quota_exceeded", "rate_limited", "network_error"}

\* C3: a full check whose search fails with quota_exceeded, rate_limited or
\* network_error adds exactly 1 to consecutive_failures, sets stream_status to
\* api_error and leaves video_id and start_time as they were; two full checks
\* in a row answered 403, the first from consecutive_failures = 0, end with
\* consecutive_failures = 2, api_error and the video_id cached before them.
C3_TransientFailurePreservesCache ==
    /\ [][TransientFailure(last')
          => (/\ cache'.consecutive_failures = cache.consecutive_failures + 1
              /\ cache'.stream_status = "api_error"
              /\ Cached(cache') = Cached(cache))]_vars
    /\ [](qRun = 2 => (/\ cache.consecutive_failures = 2
                       /\ cache.stream_status = "api_error"
                       /\ cache.video_id = runVid))

\* two 403 full checks in a row with a video_id cached throughout
C3_Witness ==
    qRun = 2 /\ runVid \in VideoIds /\ TransientFailure(last)

C5_NoConfigNoNetwork ==
    (config.api_key = FALSE \/ config.channel_id = FALSE)
    => /\ last.calls = 0
       /\ pending = 0
       /\ last.op # "background"
       /\ IsLookup(last) => /\ last.ret = <<None, None>>
                            /\ last.path = "config_error"
                            /\ cache.stream_status = "config_error"

\* a repeated lookup through force-refresh, later than the first one, with
\* only the channel id absent
C5_Witness ==
    /\ config.api_key /\ ~config.channel_id
    /\ last.op = "force_refresh"
    /\ now > StartClock
    /\ cache.stream_status = "config_error"

\* C10: a full check from a cache without video_id whose search returns a
\* live candidate id with start time T0 returns (id, T0) and leaves video_id =
\* id, start_time = T0, stream_status = live, consecutive_failures = 0 and
\* last_known_live_time = last_checked = the lookup's clock reading.
C10_FirstDetection ==
    [][(/\ IsLookup(last')
        /\ cache.video_id = None
        /\ last'.error = "success"
        /\ last'.searched[1] # None /\ last'.searched[2] # None)
       => (/\ last'.ret = last'.searched
           /\ cache' = [video_id |-> last'.searched[1],
                        start_time |-> last'.searched[2],
                        last_checked |-> now,
                        last_known_live_time |-> now,
                        consecutive_failures |-> 0,
                        stream_status |-> "live"])]_vars

\* the first lookup after start-up finds a stream with one search attempt and
\* one verification: two requests, so nothing was cached before
C10_Witness ==
    /\ last.op = "lookup" /\ last.path = "found" /\ last.calls = 2
    /\ last.ret = <<"v1", "datetime(2024,1,1,0,0,0,utc)">>
    /\ cache.last_checked = now /\ cache.last_known_live_time = now
    /\ cache.stream_status = "live"

------------------------------------------------------------------------------
(* Properties of the leaf functions, checked under SpecCalls.              *)

Of(fn) == call.fn = fn /\ Called

\* the details answer is a 200 with one item
HasVideo(reply) ==
    /\ reply.kind = "response" /\ reply.status_code = 200
    /\ reply.body.keys # {} /\ reply.body.items # <<>>
Video(reply) == reply.body.items[1]

\* C6: for a details answer that carries actualEndTime, check_video_still_live
\* returns not-live and no start time, whatever the flag and actualStartTime.
C6_EndTimePrecedence ==
    (Of("check_video_still_live") /\ HasVideo(call.reply)
     /\ Video(call.reply).actualEndTime # None)
    => (call.out.is_live = FALSE /\ call.out.start_time = None)

\* an ended broadcast still flagged live, with a start time
C6_Witness ==
    /\ Of("check_video_still_live") /\ HasVideo(call.reply)
    /\ Video(call.reply).actualEndTime # None
    /\ Video(call.reply).liveBroadcastContent = "live"
    /\ Video(call.reply).actualStartTime = "2024-01-01T00:00:00Z"
    /\ call.out.is_live = FALSE

\* C7: for a successful details answer without actualEndTime, the verifier
\* returns live exactly when the flag is "live", or the flag is "upcoming" and
\* actualStartTime is present.
C7_LiveExactlyWhenFlagged ==
    (Of("check_video_still_live") /\ call.reply.kind = "response"
     /\ call.reply.status_code = 200)
    => IF HasVideo(call.reply)
       THEN Video(call.reply).actualEndTime = None
            => (call.out.is_live
                <=> \/ Video(call.reply).liveBroadcastContent = "live"
                    \/ /\ Video(call.reply).liveBroadcastContent = "upcoming"
                       /\ Video(call.reply).actualStartTime # None)
       ELSE call.out.is_live = FALSE

\* the i-th attempt is a transport failure: an exception of requests.get, or
\* an error status other than 403 and 429
Failed(reply) ==
    \/ reply.kind = "exception"
    \/ reply.status_code >= 400 /\ reply.status_code \notin {403, 429}

Decisive(replies) == {i \in DOMAIN replies : ~Failed(replies[i])}
FirstDecisive(replies) ==
    CHOOSE i \in Decisive(replies) : \A j \in Decisive(replies) : i <= j

\* C8: safe_youtube_call with retry budget n >= 1 issues at most n attempts;
\* a 403 or 429 ends it at once with quota_exceeded or rate_limited; a
\* transport failure is followed by another attempt until n have failed, and
\* network_error is returned only after exactly n failed attempts; the first
\* successful answer ends it with success.
C8_BoundedRetries ==
    (Of("safe_youtube_call") /\ call.retries >= 1)
    => LET n == call.retries
           rs == call.replies
           out == call.out
       IN /\ out.attempts <= n
          /\ IF Decisive(rs) = {}
             THEN out.status = "network_error" /\ out.attempts = n
             ELSE LET k == FirstDecisive(rs) IN
                  /\ out.attempts = k
                  /\ out.status = (IF rs[k].status_code = 403 THEN "quota_exceeded"
                                   ELSE IF rs[k].status_code = 429 THEN "rate_limited"
                                   ELSE "success")
                  /\ rs[k].status_code = 200 => out.data = rs[k].body
          /\ out.status # "success" => out.data = NoData

\* a failure, then a 429 with one attempt of the budget left unused
C8_Witness ==
    /\ Of("safe_youtube_call") /\ call.retries = 3
    /\ call.replies[1].kind = "exception"
    /\ call.replies[2].status_code = 429
    /\ call.replies[3].status_code = 200
    /\ call.out.status = "rate_limited" /\ call.out.attempts = 2

\* the candidates of a search call whose query succeeded
Candidates == GetItems(SafeYoutubeCall(DEFAULT_RETRIES, call.replies).data)
LiveAt(i) == CheckVideoStillLive(Candidates[i], call.details[Candidates[i]]).is_live
LiveIndexes == {i \in 1..Len(Candidates) : LiveAt(i)}

\* C9: when the search query succeeds with candidates c1..ck, they are
\* verified in that order, the lowest-indexed one that verifies live is
\* returned, no later candidate is passed to the verifier, and a candidate is
\* returned only if its own verification returned live.
C9_FirstLiveWins ==
    (Of("search_for_live_streams") /\ Candidates # <<>>)
    => IF LiveIndexes = {}
       THEN /\ call.out.video_id = None
            /\ call.out.error = "no_live_streams"
            /\ call.out.verified = Candidates
       ELSE LET m == CHOOSE i \in LiveIndexes : \A j \in LiveIndexes : i <= j IN
            /\ call.out.video_id = Candidates[m]
            /\ call.out.error = "success"
            /\ call.out.verified = SubSeq(Candidates, 1, m)
            /\ call.out.start_time =
                   CheckVideoStillLive(Candidates[m], call.details[Candidates[m]]).start_time

\* two candidates, both live: the first is returned, the second never verified
C9_Witness ==
    /\ Of("search_for_live_streams") /\ Len(Candidates) = 2
    /\ LiveIndexes = {1, 2}
    /\ call.out.video_id = Candidates[1]
    /\ call.out.verified = <<Candidates[1]>>

------------------------------------------------------------------------------
(* Properties of the detector, checked under Spec: the grace period, the   *)
(* negative cache and the force-refresh.                                    *)

SearcherInvoked(o) == o.path \in {"found", "not_found"}

\* C11, as stated: with X cached, the positive window expired and the clock
\* within the grace window, a lookup whose re-verification of X returns
\* not-live does not return X; it continues into the full check and invokes
\* the searcher, and if the search finds no live stream either it returns
\* (none, none) with video_id and start_time cleared and status offline.
C11_GraceFailureInvokesSearcher ==
    [][(IsLookup(last') /\ last'.grace = "not_live")
       => (/\ last'.ret[1] # cache.video_id
           /\ SearcherInvoked(last')
           /\ DefinitiveNoStream(last')
              => (/\ last'.ret = <<None, None>>
                  /\ Cached(cache') = <<None, None>>
                  /\ cache'.stream_status = "offline"))]_vars

\* C11, amended: such a lookup is not answered by strategy 2 but continues
\* into the full check, which verifies X a second time; if that answer is live
\* the lookup returns X without a search, if it is not-live the searcher is
\* invoked; X is returned only if one of the two confirms it, and if the
\* search finds no live stream the lookup returns (none, none) with video_id
\* and start_time cleared and status offline.
C11_GraceFailureReachesFullCheck ==
    [][(IsLookup(last') /\ last'.grace = "not_live")
       => (/\ last'.path \in {"reverify_live", "found", "not_found"}
           /\ last'.reverify # "none"
           /\ last'.reverify = "live"
              => (last'.path = "reverify_live" /\ last'.ret[1] = cache.video_id)
           /\ last'.reverify = "not_live" => SearcherInvoked(last')
           /\ last'.ret[1] = cache.video_id
              => (last'.reverify = "live" \/ last'.searched[1] = cache.video_id)
           /\ DefinitiveNoStream(last')
              => (/\ last'.ret = <<None, None>>
                  /\ Cached(cache') = <<None, None>>
                  /\ cache'.stream_status = "offline"))]_vars

\* both verifications of the cached video_id answered not-live and the search
\* found candidates, none of them live
C11_Witness ==
    /\ last.grace = "not_live" /\ last.reverify = "not_live"
    /\ last.path = "not_found" /\ last.error = "no_live_streams"
    /\ cache.video_id = None /\ cache.stream_status = "offline"

\* C13: last_checked is set to the time of the attempt by every completed
\* attempt that queried the source (a grace-period success, a full check
\* ending in success, in a definitive offline result or in a transient
\* failure, a completed background refresh) and is left unchanged by
\* positive-cache hits and negative-cache hits.
C13_LastCheckedFollowsQueries ==
    [][/\ last'.path \in {"grace_live", "reverify_live", "found", "not_found",
                          "bg_found", "bg_nothing"}
          => cache'.last_checked = now
       /\ (last'.op = "lookup" /\ last'.path \in {"cache_hit", "negative_hit"})
          => cache'.last_checked = cache.last_checked]_vars

\* C14: the staleness step of a force-refresh changes last_checked and nothing
\* else, and the lookup that follows is answered neither by strategy 1 nor by
\* a negative-cache hit: it issues at least one request or records
\* config_error.
C14_ForceRefreshBypassesCaches ==
    [][last'.op = "force_refresh"
       => (/\ last'.path \notin {"cache_hit", "negative_hit"}
           /\ \/ last'.calls >= 1
              \/ last'.path = "config_error" /\ cache'.stream_status = "config_error"
           /\ last'.path = "config_error"
              => cache' = [cache EXCEPT !.last_checked = 0,
                                        !.stream_status = "config_error"]
           /\ last'.path = "grace_live"
              => cache' = [cache EXCEPT !.last_checked = now,
                                        !.last_known_live_time = now,
                                        !.consecutive_failures = 0])]_vars

\* a force-refresh re-verified, over the network, a video_id whose positive
\* window had not expired
C14_Witness ==
    /\ last.op = "force_refresh" /\ last.path = "grace_live" /\ last.calls = 1
    /\ cache.video_id # None /\ cache.last_checked = now

\* C17: after a successful grace-period re-verification last_checked and
\* last_known_live_time both equal the time of the lookup,
\* consecutive_failures is 0, stream_status is live and video_id is the one
\* cached before, from every reachable state.
C17_GraceSuccessState ==
    [][last'.path = "grace_live"
       => (/\ cache'.last_checked = now
           /\ cache'.last_known_live_time = now
           /\ cache'.consecutive_failures = 0
           /\ cache'.stream_status = "live"
           /\ cache'.video_id = cache.video_id)]_vars

\* C18: a lookup is answered by strategy 3 exactly when no video_id is cached,
\* now - last_checked < NEGATIVE_CACHE_DURATION and consecutive_failures <
\* MAX_CONSECUTIVE_FAILURES; it then returns (none, none), issues no request
\* in the caller, modifies no cache field and starts one background refresher
\* without waiting for it.
C18_NegativeCacheHit ==
    [][(last'.op = "lookup"
        => (last'.path = "negative_hit"
            <=> (/\ cache.video_id = None
                 /\ now - cache.last_checked < NEGATIVE_CACHE_DURATION
                 /\ cache.consecutive_failures < MAX_CONSECUTIVE_FAILURES)))
       /\ (last'.path = "negative_hit"
           => (/\ last'.ret = <<None, None>>
               /\ last'.calls = 0
               /\ cache' = cache
               /\ last'.spawned /\ pending' = pending + 1))]_vars

\* a negative-cache hit after two failed checks, its refresher still running
C18_Witness ==
    /\ last.path = "negative_hit" /\ pending = 1
    /\ cache.consecutive_failures = MAX_CONSECUTIVE_FAILURES - 1

\* C19: a background refresher writes video_id under the success condition of
\* strategy 4 (a video_id and a start_time), and when it finds a live stream
\* it leaves all six cache fields as a successful full check with the same
\* search result would, last_checked included.
C19_BackgroundAsFullCheck ==
    [][last'.op = "background"
       => (/\ last'.path = "bg_found"
              <=> (last'.searched[1] # None /\ last'.searched[2] # None)
           /\ last'.path = "bg_found"
              => cache' = [video_id |-> last'.searched[1],
                           start_time |-> last'.searched[2],
                           last_checked |-> now,
                           last_known_live_time |-> now,
                           consecutive_failures |-> 0,
                           stream_status |-> "live"])]_vars

\* C20, as stated: whenever a lookup returns a video_id by strategy 1, the
\* most recent completed check that wrote last_checked confirmed that
\* video_id live; a video_id whose latest verification was not-live or failed
\* (stream_status api_error) is not returned from cache.
C20_HitServesConfirmedAnswer ==
    last.path = "cache_hit"
    => (/\ lastCheck.outcome = "confirmed"
        /\ lastCheck.video_id = last.ret[1]
        /\ cache.stream_status # "api_error")

\* C20, amended: the video_id a strategy-1 hit returns is the one the most
\* recent check that wrote last_checked confirmed live or, ending in a
\* transient failure, left cached, unless a background refresh has written a
\* video_id since, and then it is that one; it is never one cached before a
\* check that ended in a definitive no-stream result.
C20_HitServesPreservedAnswer ==
    last.path = "cache_hit"
    => (/\ last.ret[1] # None
        /\ \/ /\ lastCheck.background = None
              /\ lastCheck.outcome \in {"confirmed", "transient"}
              /\ last.ret[1] = lastCheck.video_id
           \/ /\ lastCheck.background # None
              /\ last.ret[1] = lastCheck.background)

\* a hit on a video_id kept through a transient failure
C20_Witness ==
    /\ last.path = "cache_hit" /\ last.ret[1] # None
    /\ lastCheck.outcome = "transient" /\ lastCheck.background = None
    /\ cache.stream_status = "api_error"

------------------------------------------------------------------------------
(* Properties of one full check on the raw answers, checked under          *)
(* SpecCalls.                                                               *)

\* C16: when a request of a full check (the search, the re-verification of
\* the cached video_id or the verification of a candidate) is answered
\* quota_exceeded or rate_limited and no candidate is confirmed live, the
\* check leaves video_id and start_time as they were, does not set
\* stream_status to offline and adds one to consecutive_failures.
C16_ThrottlingPreservesCache ==
    (/\ Of("get_live_info")
     /\ call.out.throttled
     /\ call.out.path = "not_found" /\ call.out.searched[1] = None)
    => (/\ Cached(call.out.cache) = Cached(call.cache)
        /\ call.out.cache.stream_status # "offline"
        /\ call.out.cache.consecutive_failures = call.cache.consecutive_failures + 1)

------------------------------------------------------------------------------
(* Properties of the cache under concurrent threads, checked under         *)
(* SpecThreads.                                                             *)

\* C12: under every interleaving of the stores of concurrent lookups and
\* background refreshers, start_time is present only if video_id is present:
\* no reader finds a half-updated record.
C12_StartTimeOnlyWithVideoId ==
    cache.start_time # None => cache.video_id # None

------------------------------------------------------------------------------
(* Properties of the clip store, checked under SpecClips.                  *)

NoSaverRunning == \A th \in SaverThreads : threads[th].pc = "idle"

\* C15: under every interleaving of concurrent save_clip calls, from an
\* absent, empty or populated store, once the calls have completed the store
\* holds every record it held before and one new record for each completed
\* call, in the order the calls completed: no record is lost.
C15_NoClipLost ==
    (NoSaverRunning /\ last.op = "save_clip") => store = File(last.written)

====
